---- MODULE Spec2Model ----
(***************************************************************************)
(* The chat session core of the SMobile storefront: the zustand chat store *)
(* (rooms, activeRoomId, messages, isConnected), the ChatWindow component  *)
(* (active-room effect, history effect, WebSocket effect, handleSend) and  *)
(* the ChatRoomList component (directory fetch).                           *)
(*                                                                         *)
(* One action is one turn of the single JavaScript thread: a React commit  *)
(* (mount, room switch, unmount, change of user or token) with all of its  *)
(* effect cleanups and effects, the settling of one HTTP request with its  *)
(* then/catch/finally chain, one WebSocket event, or one DOM event.        *)
(***************************************************************************)
EXTENDS Integers, Sequences, FiniteSets, TLC

VARIABLES
    store,             \* the zustand state: rooms, activeRoomId, messages, isConnected
    roomId,            \* ChatWindow's roomId prop; Null while no ChatWindow is mounted
    isLoadingHistory,  \* ChatWindow local state
    input,             \* ChatWindow local state: the text of the message box
    wsRef,             \* ChatWindow's wsRef.current: a channel, or Null
    readyState,        \* WebSocket.readyState of every channel created so far
    loggedIn,          \* useAuthStore: user?.id is set
    fetches,           \* history requests in flight, in the order they were sent
    roomFetches,       \* directory requests in flight
    sent,              \* frames handed to WebSocket.send, in order
    uncaught,          \* an exception left an event handler
    last,              \* the turn that produced this state
    turns              \* turns taken so far

vars == <<store, roomId, isLoadingHistory, input, wsRef, readyState, loggedIn,
          fetches, roomFetches, sent, uncaught, last, turns>>

----------------------------------------------------------------------------
(* Bounds of the model. *)

MaxRoom == 2          \* room identities 1..MaxRoom
MaxMsgId == 2         \* message identities 1..MaxMsgId
MaxTurns == 5         \* turns of the event loop in a run
MaxInput == 2         \* runs of the text entered into the message box
MaxCount == 2         \* largest unread count passed to updateUnreadCount
MaxCalls == 4         \* direct calls of the store's actions in a run

----------------------------------------------------------------------------
(* JavaScript values. *)

Null == 0                      \* null: activeRoomId, wsRef.current, no ChatWindow
Undefined == -1                \* the value of a property the object does not have
AbsentStr == "<undefined>"     \* the same, where the property would be a string

RoomIds == 1..MaxRoom
MsgIds == 1..MaxMsgId
Contents == {"a", "b"}            \* "a" in the history, "b" on the channel
Tags == {"message", "typing", AbsentStr}

SenderOf(c) == IF c = "a" THEN 11 ELSE 12
TimeOf(i) == 100 + i

\* A ChatMessage as the history endpoint returns it (no type tag).
HistoryMessage(i, r) ==
    [type |-> AbsentStr, id |-> i, room_id |-> r, sender_id |-> SenderOf("a"),
     content |-> "a", timestamp |-> TimeOf(i)]

\* event.data of a message event: text that is no JSON, the JSON text "null",
\* or a JSON object with or without each of the properties the handlers read.
Object(t, i, r, c) ==
    [kind |-> "object", type |-> t, id |-> i, room_id |-> r,
     sender_id |-> SenderOf(c), content |-> c, timestamp |-> TimeOf(i)]

Payloads ==
    {[kind |-> "garbage"], [kind |-> "null"]}
    \cup {Object(t, 1, 1, "b") : t \in Tags \ {"message"}}
    \cup {Object("message", i, r, "b") :
            i \in MsgIds \cup {Undefined}, r \in RoomIds \cup {Undefined}}

\* What a property read yields on an object without the property.
NoObject ==
    [type |-> AbsentStr, id |-> Undefined, room_id |-> Undefined,
     sender_id |-> Undefined, content |-> AbsentStr, timestamp |-> Undefined]

\* JSON.parse: throws on text that is no JSON, else yields the value, which is
\* null or an object.
JSONParse(p) ==
    IF p.kind = "garbage" THEN [threw |-> TRUE, isNull |-> FALSE, data |-> NoObject]
    ELSE IF p.kind = "null" THEN [threw |-> FALSE, isNull |-> TRUE, data |-> NoObject]
    ELSE [threw |-> FALSE, isNull |-> FALSE,
          data |-> [type |-> p.type, id |-> p.id, room_id |-> p.room_id,
                    sender_id |-> p.sender_id, content |-> p.content,
                    timestamp |-> p.timestamp]]

\* A ChatRoom of the directory; last_message is <<>> for null.
Room(i, unread) == [id |-> i, unread_count |-> unread, last_message |-> <<>>]

\* A response body: the value of res.data (directory) or res.data.messages
\* (history), which may be missing.
Missing == [has |-> FALSE, val |-> <<>>]
Body(v) == [has |-> TRUE, val |-> v]

\* The bodies GET /chat/rooms can answer with.
RoomsBodies ==
    {Missing} \cup {Body(<<Room(1, u)>>) : u \in 0..1}
              \cup {Body(<<Room(1, u), Room(2, 0)>>) : u \in 0..1}

\* The bodies GET /chat/history/r can answer with: the server lists a room's
\* messages oldest first, each identity once.
HistoryBodies(r) ==
    {Missing} \cup {Body([i \in 1..n |-> HistoryMessage(i, r)]) : n \in 0..MaxMsgId}

\* JavaScript's x || [] on an array or a missing value.
OrEmpty(b) == IF b.has THEN b.val ELSE <<>>

----------------------------------------------------------------------------
(* The message box: a text over a blank and a letter, written as a       *)
(* sequence of runs, a run being n copies of one character.                *)

Chars == {" ", "x"}

\* <input maxLength={2000}>
maxLength == 2000

\* What the user enters at once: one character, or a paste that alone fills
\* the box.
Runs == {[ch |-> c, n |-> k] : c \in Chars, k \in {1, maxLength}}

\* What the user tries to put into the box.
Texts == UNION {[1..n -> Runs] : n \in 0..MaxInput}

\* String.prototype.length
RECURSIVE Length(_)
Length(s) == IF s = <<>> THEN 0 ELSE Head(s).n + Length(Tail(s))

\* The first limit characters of a text.
RECURSIVE Truncate(_, _)
Truncate(s, limit) ==
    IF s = <<>> \/ limit = 0 THEN <<>>
    ELSE IF Head(s).n <= limit
         THEN <<Head(s)>> \o Truncate(Tail(s), limit - Head(s).n)
         ELSE <<[Head(s) EXCEPT !.n = limit]>>

\* e.target.value without the maxLength attribute on the input.
DomValueUnlimited(t) == t

\* e.target.value: the browser lets the user bring the value of the input to
\* at most maxLength characters.
DomValue(t) == Truncate(t, maxLength)

\* The values onChange passes to setInput.
Inputs == {DomValue(t) : t \in Texts}

RECURSIVE TrimStart(_)
TrimStart(s) == IF s # <<>> /\ Head(s).ch = " " THEN TrimStart(Tail(s)) ELSE s

RECURSIVE TrimEnd(_)
TrimEnd(s) ==
    IF s # <<>> /\ s[Len(s)].ch = " " THEN TrimEnd(SubSeq(s, 1, Len(s) - 1)) ELSE s

\* String.prototype.trim
Trim(s) == TrimEnd(TrimStart(s))

----------------------------------------------------------------------------
(* The chat store (useChatStore). Each action of the store is an operator  *)
(* from the state before the call to the state after it.                   *)

InitialStore ==
    [rooms |-> <<>>, activeRoomId |-> Null, messages |-> <<>>, isConnected |-> FALSE]

setRooms(s, rooms) == [s EXCEPT !.rooms = rooms]

\* setActiveRoom clearing the connection flag as well.
setActiveRoomResetsConnection(s, r) ==
    [s EXCEPT !.activeRoomId = r, !.messages = <<>>, !.isConnected = FALSE]

\* setActiveRoom keeping the messages of the room that was active.
setActiveRoomKeepsLog(s, r) == [s EXCEPT !.activeRoomId = r]

setActiveRoom(s, r) == [s EXCEPT !.activeRoomId = r, !.messages = <<>>]

\* setMessages marking the active room as read in the directory.
setMessagesMarksRead(s, msgs) ==
    [s EXCEPT !.messages = msgs,
              !.rooms = [k \in DOMAIN s.rooms |->
                  IF s.rooms[k].id = s.activeRoomId
                  THEN [s.rooms[k] EXCEPT !.unread_count = 0]
                  ELSE s.rooms[k]]]

setMessages(s, msgs) == [s EXCEPT !.messages = msgs]

\* messages.some((m) => m.id === id)
Exists(msgs, id) == \E k \in DOMAIN msgs : msgs[k].id = id

\* AppendToLog without the check for a message with the same id.
AppendToLogNoDedup(s, msg) ==
    IF msg.room_id = s.activeRoomId THEN Append(s.messages, msg) ELSE s.messages

\* AppendToLog without the test of the message's room.
AppendToLogAnyRoom(s, msg) ==
    IF ~Exists(s.messages, msg.id) THEN Append(s.messages, msg) ELSE s.messages

\* AppendToLog putting a message with an earlier timestamp than the last
\* entry's in front of the log.
AppendToLogByTime(s, msg) ==
    IF msg.room_id = s.activeRoomId /\ ~Exists(s.messages, msg.id)
    THEN IF s.messages # <<>> /\ s.messages[Len(s.messages)].timestamp > msg.timestamp
         THEN <<msg>> \o s.messages
         ELSE Append(s.messages, msg)
    ELSE s.messages

\* AppendToLog replacing the entry that has the id of the message.
AppendToLogReplace(s, msg) ==
    IF msg.room_id = s.activeRoomId
    THEN IF Exists(s.messages, msg.id)
         THEN [k \in DOMAIN s.messages |->
                 IF s.messages[k].id = msg.id THEN msg ELSE s.messages[k]]
         ELSE Append(s.messages, msg)
    ELSE s.messages

\* The first half of addMessage: append to the log of the active room.
AppendToLog(s, msg) ==
    IF msg.room_id = s.activeRoomId /\ ~Exists(s.messages, msg.id)
    THEN Append(s.messages, msg)
    ELSE s.messages

\* UpdateRoomCard counting a message of the active room as unread too.
UpdateRoomCardAlwaysUnread(r, msg, activeRoomId) ==
    IF r.id = msg.room_id
    THEN [r EXCEPT
            !.last_message = <<[content |-> msg.content, sender_id |-> msg.sender_id,
                                timestamp |-> msg.timestamp]>>,
            !.unread_count = @ + 1]
    ELSE r

\* UpdateRoomCard taking one off the count for a message of the active room.
UpdateRoomCardReadOnArrival(r, msg, activeRoomId) ==
    IF r.id = msg.room_id
    THEN [r EXCEPT
            !.last_message = <<[content |-> msg.content, sender_id |-> msg.sender_id,
                                timestamp |-> msg.timestamp]>>,
            !.unread_count = IF msg.room_id # activeRoomId THEN @ + 1 ELSE @ - 1]
    ELSE r

\* UpdateRoomCard leaving the preview of the active room as it was.
UpdateRoomCardPreviewWhenInactive(r, msg, activeRoomId) ==
    IF r.id = msg.room_id
    THEN IF msg.room_id # activeRoomId
         THEN [r EXCEPT
                 !.last_message = <<[content |-> msg.content,
                                     sender_id |-> msg.sender_id,
                                     timestamp |-> msg.timestamp]>>,
                 !.unread_count = @ + 1]
         ELSE r
    ELSE r

\* UpdateRoomCard without the test of the room's id.
UpdateRoomCardEveryRoom(r, msg, activeRoomId) ==
    [r EXCEPT
        !.last_message = <<[content |-> msg.content, sender_id |-> msg.sender_id,
                            timestamp |-> msg.timestamp]>>,
        !.unread_count = IF msg.room_id # activeRoomId THEN @ + 1 ELSE @]

\* The second half of addMessage: the room card of the message's room.
UpdateRoomCard(r, msg, activeRoomId) ==
    IF r.id = msg.room_id
    THEN [r EXCEPT
            !.last_message = <<[content |-> msg.content, sender_id |-> msg.sender_id,
                                timestamp |-> msg.timestamp]>>,
            !.unread_count = IF msg.room_id # activeRoomId THEN @ + 1 ELSE @]
    ELSE r

addMessage(s, msg) ==
    [s EXCEPT
        !.messages = AppendToLog(s, msg),
        !.rooms = [k \in DOMAIN s.rooms |-> UpdateRoomCard(s.rooms[k], msg, s.activeRoomId)]]

setConnected(s, val) == [s EXCEPT !.isConnected = val]

updateUnreadCount(s, r, count) ==
    [s EXCEPT !.rooms = [k \in DOMAIN s.rooms |->
        IF s.rooms[k].id = r THEN [s.rooms[k] EXCEPT !.unread_count = count]
        ELSE s.rooms[k]]]

reset(s) == InitialStore

----------------------------------------------------------------------------
(* ChatWindow's WebSocket handlers. *)

\* onmessage without the try/catch around the handler's body.
onmessageNoCatch(s, p) ==
    LET parsed == JSONParse(p)
        threw == parsed.threw \/ parsed.isNull
    IN  [store |-> IF ~threw /\ parsed.data.type = "message"
                   THEN addMessage(s, parsed.data)
                   ELSE s,
         escaped |-> threw]

\* onmessage without the test of data.type.
onmessageAnyTag(s, p) ==
    LET parsed == JSONParse(p)
        threw == parsed.threw \/ parsed.isNull
    IN  [store |-> IF ~threw THEN addMessage(s, parsed.data) ELSE s,
         escaped |-> FALSE]

\* ws.onmessage: the try block, and what is left of an exception after the catch.
\* data.type on null throws a TypeError inside the try block.
onmessage(s, p) ==
    LET parsed == JSONParse(p)
        threw == parsed.threw \/ parsed.isNull
    IN  [store |-> IF ~threw /\ parsed.data.type = "message"
                   THEN addMessage(s, parsed.data)
                   ELSE s,
         escaped |-> FALSE]

onopen(s) == setConnected(s, TRUE)

\* onclose leaving isConnected as it is.
oncloseKeepFlag(s) == s

onclose(s) == setConnected(s, FALSE)

onerror(s) == setConnected(s, FALSE)

\* WebSocket.close(): a channel that is connecting or open starts closing.
Close(rs, c) ==
    [k \in DOMAIN rs |->
        IF k = c /\ rs[k] \in {"CONNECTING", "OPEN"} THEN "CLOSING" ELSE rs[k]]

\* The connection as send sees it: the readyState of wsRef.current.
ConnectionState ==
    IF wsRef = Null THEN "Disconnected"
    ELSE IF readyState[wsRef] = "OPEN" THEN "Connected"
    ELSE IF readyState[wsRef] = "CONNECTING" THEN "Connecting"
    ELSE "Disconnected"

----------------------------------------------------------------------------
(* ChatWindow.handleSend: whether a frame goes out, the frame, and what    *)
(* the caller is told.                                                     *)

\* handleSend without the test of readyState.
handleSendNoStateCheck(text, ws, rs, room) ==
    LET content == Trim(text)
        returns == content = <<>> \/ ws = Null
    IN  [transmit |-> ~returns,
         frame |-> [room_id |-> room, content |-> content],
         reported |-> "nothing"]

handleSend(text, ws, rs, room) ==
    LET content == Trim(text)
        returns == content = <<>> \/ ws = Null \/ rs[ws] # "OPEN"
    IN  [transmit |-> ~returns,
         frame |-> [room_id |-> room, content |-> content],
         reported |-> "nothing"]

----------------------------------------------------------------------------
(* The state after construction: the store as created, nothing mounted.    *)

NoPayload == [kind |-> "none"]

Event(op, room, chan, payload, extra) ==
    [op |-> op, room |-> room, chan |-> chan, payload |-> payload, extra |-> extra]

Record(op, room, chan, payload, extra) ==
    /\ turns < MaxTurns
    /\ turns' = turns + 1
    /\ last' = Event(op, room, chan, payload, extra)

Init ==
    /\ store = InitialStore
    /\ roomId = Null
    /\ isLoadingHistory = FALSE
    /\ input = <<>>
    /\ wsRef = Null
    /\ readyState = <<>>
    /\ loggedIn \in BOOLEAN
    /\ fetches = <<>>
    /\ roomFetches = 0
    /\ sent = <<>>
    /\ uncaught = FALSE
    /\ last = Event("init", Null, Null, NoPayload, "")
    /\ turns = 0

----------------------------------------------------------------------------
(* ChatWindow: commits. *)

\* The history effect: a request is sent; nothing cancels an earlier one.
\* A request remembers its room and the instance whose setIsLoadingHistory its
\* finally block calls: detached is set once that instance is unmounted. The
\* code keeps no handle on a request; latest only marks, for the properties,
\* the request of the most recent activation while its room is still active.
Superseded(pending) == [k \in DOMAIN pending |-> [pending[k] EXCEPT !.latest = FALSE]]

LoadHistory(r, pending) ==
    /\ fetches' = Append(Superseded(pending),
                         [room |-> r, detached |-> FALSE, latest |-> TRUE])
    /\ isLoadingHistory' = TRUE

\* OpenChannel with a channel that counts as open from its creation.
OpenChannelAlreadyOpen(rs) ==
    /\ readyState' = Append(rs, "OPEN")
    /\ wsRef' = Len(rs) + 1

\* The WebSocket effect: a channel is created and its handlers attached.
OpenChannel(rs) ==
    /\ readyState' = Append(rs, "CONNECTING")
    /\ wsRef' = Len(rs) + 1

\* <ChatWindow roomId={r}/> is rendered for the first time.
Mount(r) ==
    /\ roomId = Null
    /\ roomId' = r
    /\ input' = <<>>
    /\ store' = setActiveRoom(store, r)
    /\ LoadHistory(r, fetches)
    /\ IF loggedIn THEN OpenChannel(readyState)
                   ELSE UNCHANGED <<readyState, wsRef>>
    /\ UNCHANGED <<loggedIn, roomFetches, sent, uncaught>>
    /\ Record("mount", r, Null, NoPayload, "")

\* The parent renders the mounted ChatWindow with another roomId: the cleanup
\* of the active-room effect, then the active-room and history effects.
SwitchRoom(r) ==
    /\ roomId # Null
    /\ roomId # r
    /\ roomId' = r
    /\ store' = setActiveRoom(setActiveRoom(store, Null), r)
    /\ LoadHistory(r, fetches)
    /\ UNCHANGED <<input, wsRef, readyState, loggedIn, roomFetches, sent, uncaught>>
    /\ Record("switch", r, Null, NoPayload, "")

\* The cleanup closing the channel without setConnected(false).
CloseChannelKeepFlag(s) == s

\* The cleanup of the WebSocket effect, which exists when the effect opened a
\* channel: ws.close(); setConnected(false).
CloseChannel(s) == IF loggedIn THEN setConnected(s, FALSE) ELSE s
ClosedStates == IF loggedIn THEN Close(readyState, wsRef) ELSE readyState

\* The ChatWindow is removed: every effect's cleanup runs.
Unmount ==
    /\ roomId # Null
    /\ roomId' = Null
    /\ store' = CloseChannel(setActiveRoom(store, Null))
    /\ readyState' = ClosedStates
    /\ wsRef' = Null
    /\ input' = <<>>
    /\ isLoadingHistory' = FALSE
    /\ fetches' = [k \in DOMAIN fetches |->
                        [fetches[k] EXCEPT !.detached = TRUE, !.latest = FALSE]]
    /\ UNCHANGED <<loggedIn, roomFetches, sent, uncaught>>
    /\ Record("unmount", roomId, Null, NoPayload, "")

\* user?.id or token changes (login, logout, token refresh): with a ChatWindow
\* mounted, the WebSocket effect is cleaned up and runs again.
AuthChange(li) ==
    /\ loggedIn \/ li
    /\ roomId = Null => li # loggedIn
    /\ loggedIn' = li
    /\ IF roomId = Null
       THEN UNCHANGED <<store, readyState, wsRef>>
       ELSE /\ store' = CloseChannel(store)
            /\ IF li THEN OpenChannel(ClosedStates)
                     ELSE /\ readyState' = ClosedStates
                          /\ UNCHANGED wsRef
    /\ UNCHANGED <<roomId, isLoadingHistory, input, fetches, roomFetches, sent,
                   uncaught>>
    /\ Record("auth", Null, Null, NoPayload, "")

----------------------------------------------------------------------------
(* ChatWindow: the history request settles. *)

\* The catch callback closing the room: setActiveRoom(null).
onHistoryErrorToIdle(s) == setActiveRoom(s, Null)

\* .catch((err) => console.error("Failed to load chat history:", err)):
\* nothing is written.
onHistoryError(s) == s

\* The requests in flight without the k-th.
Settled(k) == [j \in 1..(Len(fetches) - 1) |-> IF j < k THEN fetches[j] ELSE fetches[j + 1]]

\* .finally(() => setIsLoadingHistory(false)): a state setter of the instance
\* that sent the request; it does nothing once that instance is unmounted.
FinishLoading(f) == IF f.detached THEN isLoadingHistory ELSE FALSE

\* .then((res) => setMessages(res.data.messages || []))
HistoryOk(k, body) ==
    /\ k \in DOMAIN fetches
    /\ body \in HistoryBodies(fetches[k].room)
    /\ fetches' = Settled(k)
    /\ store' = setMessages(store, OrEmpty(body))
    /\ isLoadingHistory' = FinishLoading(fetches[k])
    /\ UNCHANGED <<roomId, input, wsRef, readyState, loggedIn, roomFetches, sent,
                   uncaught>>
    /\ Record("historyOk", fetches[k].room, Null, NoPayload, "")

\* .catch((err) => console.error(...))
HistoryFail(k) ==
    /\ k \in DOMAIN fetches
    /\ fetches' = Settled(k)
    /\ store' = onHistoryError(store)
    /\ isLoadingHistory' = FinishLoading(fetches[k])
    /\ UNCHANGED <<roomId, input, wsRef, readyState, loggedIn, roomFetches, sent,
                   uncaught>>
    /\ Record("historyFail", fetches[k].room, Null, NoPayload, "")

----------------------------------------------------------------------------
(* ChatWindow: WebSocket events. The handlers stay attached to a channel   *)
(* after the effect that created it is cleaned up.                         *)

WsOpened(c) ==
    /\ readyState[c] = "CONNECTING"
    /\ readyState' = [readyState EXCEPT ![c] = "OPEN"]
    /\ store' = onopen(store)
    /\ UNCHANGED <<roomId, isLoadingHistory, input, wsRef, loggedIn, fetches,
                   roomFetches, sent, uncaught>>
    /\ Record("onopen", Null, c, NoPayload, "")

\* The connection ends: it failed (error, then close) or was closed by either
\* end (close). A channel that never opened can only fail.
WsClosed(c, failed) ==
    /\ readyState[c] \in {"CONNECTING", "OPEN", "CLOSING"}
    /\ readyState[c] = "CONNECTING" => failed
    /\ readyState' = [readyState EXCEPT ![c] = "CLOSED"]
    /\ store' = IF failed THEN onclose(onerror(store)) ELSE onclose(store)
    /\ UNCHANGED <<roomId, isLoadingHistory, input, wsRef, loggedIn, fetches,
                   roomFetches, sent, uncaught>>
    /\ Record("onclose", Null, c, NoPayload, IF failed THEN "error" ELSE "")

\* A message event; the browser dispatches it only while the channel is open.
WsMessage(c, p) ==
    /\ readyState[c] = "OPEN"
    /\ p \in Payloads
    /\ store' = onmessage(store, p).store
    /\ uncaught' = (uncaught \/ onmessage(store, p).escaped)
    /\ UNCHANGED <<roomId, isLoadingHistory, input, wsRef, readyState, loggedIn,
                   fetches, roomFetches, sent>>
    /\ Record("onmessage", Null, c, p, "")

----------------------------------------------------------------------------
(* ChatWindow: the message box and the form. *)

SetInput(v) ==
    /\ roomId # Null
    /\ v \in Inputs
    /\ v # input
    /\ input' = v
    /\ UNCHANGED <<store, roomId, isLoadingHistory, wsRef, readyState, loggedIn,
                   fetches, roomFetches, sent, uncaught>>
    /\ Record("setInput", Null, Null, NoPayload, "")

HandleSend ==
    LET r == handleSend(input, wsRef, readyState, roomId) IN
    /\ roomId # Null
    /\ sent' = IF r.transmit THEN Append(sent, r.frame) ELSE sent
    /\ input' = IF r.transmit THEN <<>> ELSE input
    /\ UNCHANGED <<store, roomId, isLoadingHistory, wsRef, readyState, loggedIn,
                   fetches, roomFetches, uncaught>>
    /\ Record("handleSend", roomId, wsRef, NoPayload, r.reported)

----------------------------------------------------------------------------
(* ChatRoomList: the directory request. *)

\* The catch callback emptying the directory: setRooms([]).
onRoomsErrorFailOpen(s) == setRooms(s, <<>>)

\* .catch((err) => console.error("Failed to fetch rooms:", err)): nothing is
\* written.
onRoomsError(s) == s

RoomListMount ==
    /\ roomFetches' = roomFetches + 1
    /\ UNCHANGED <<store, roomId, isLoadingHistory, input, wsRef, readyState, loggedIn,
                   fetches, sent, uncaught>>
    /\ Record("roomListMount", Null, Null, NoPayload, "")

\* .then((res) => setRooms(res.data || []))
RoomsOk(body) ==
    /\ roomFetches > 0
    /\ body \in RoomsBodies
    /\ roomFetches' = roomFetches - 1
    /\ store' = setRooms(store, OrEmpty(body))
    /\ UNCHANGED <<roomId, isLoadingHistory, input, wsRef, readyState, loggedIn,
                   fetches, sent, uncaught>>
    /\ Record("roomsOk", Null, Null, NoPayload, "")

\* .catch((err) => console.error(...))
RoomsFail ==
    /\ roomFetches > 0
    /\ roomFetches' = roomFetches - 1
    /\ store' = onRoomsError(store)
    /\ UNCHANGED <<roomId, isLoadingHistory, input, wsRef, readyState, loggedIn,
                   fetches, sent, uncaught>>
    /\ Record("roomsFail", Null, Null, NoPayload, "")

----------------------------------------------------------------------------

(* The session: activation, history, the channel and its events, the       *)
(* directory. The message box and the form read the channel and the room   *)
(* and write only input and sent, which nothing else reads: they have a    *)
(* specification of their own, with the actions that move the channel.     *)

Next ==
    \/ \E r \in RoomIds : Mount(r)
    \/ \E r \in RoomIds : SwitchRoom(r)
    \/ Unmount
    \/ \E li \in BOOLEAN : AuthChange(li)
    \/ \E k \in DOMAIN fetches : \E body \in HistoryBodies(fetches[k].room) :
            HistoryOk(k, body)
    \/ \E k \in DOMAIN fetches : HistoryFail(k)
    \/ \E c \in DOMAIN readyState : WsOpened(c)
    \/ \E c \in DOMAIN readyState : \E failed \in BOOLEAN : WsClosed(c, failed)
    \/ \E c \in DOMAIN readyState : \E p \in Payloads : WsMessage(c, p)
    \/ RoomListMount
    \/ \E body \in RoomsBodies : RoomsOk(body)
    \/ RoomsFail

SendNext ==
    \/ \E r \in RoomIds : Mount(r)
    \/ \E r \in RoomIds : SwitchRoom(r)
    \/ Unmount
    \/ \E li \in BOOLEAN : AuthChange(li)
    \/ \E c \in DOMAIN readyState : WsOpened(c)
    \/ \E c \in DOMAIN readyState : \E failed \in BOOLEAN : WsClosed(c, failed)
    \/ \E v \in Inputs : SetInput(v)
    \/ HandleSend

Spec == Init /\ [][Next]_vars

SendSpec == Init /\ [][SendNext]_vars

----------------------------------------------------------------------------
(* The store on its own: useChatStore exports every action, and a caller   *)
(* may call them in any order. updateUnreadCount and reset have no caller  *)
(* in the components, so only this specification takes them.               *)

\* The unread counts a caller passes to updateUnreadCount.
Counts == 0..MaxCount

\* The room lists a caller passes to setRooms.
RoomLists == {OrEmpty(b) : b \in RoomsBodies}

\* The message lists a caller passes to setMessages.
MessageLists == UNION {{OrEmpty(b) : b \in HistoryBodies(r)} : r \in RoomIds}

\* The objects a caller passes to addMessage as a ChatMessage.
LiveMessages == {p \in Payloads : p.kind = "object" /\ p.type = "message"}

\* A call changes the store and nothing else.
StoreCall(s, op, room, payload) ==
    /\ turns < MaxCalls
    /\ store' = s
    /\ UNCHANGED <<roomId, isLoadingHistory, input, wsRef, readyState, loggedIn,
                   fetches, roomFetches, sent, uncaught>>
    /\ Record(op, room, Null, payload, "")

CallSetRooms(rooms) == StoreCall(setRooms(store, rooms), "setRooms", Null, NoPayload)

CallSetActiveRoom(r) == StoreCall(setActiveRoom(store, r), "setActiveRoom", r, NoPayload)

CallSetMessages(msgs) ==
    StoreCall(setMessages(store, msgs), "setMessages", Null, NoPayload)

CallAddMessage(p) ==
    StoreCall(addMessage(store, JSONParse(p).data), "addMessage", Null, p)

CallSetConnected(val) ==
    StoreCall(setConnected(store, val), "setConnected", Null, NoPayload)

CallUpdateUnreadCount(r, count) ==
    StoreCall(updateUnreadCount(store, r, count), "updateUnreadCount", r, NoPayload)

CallReset == StoreCall(reset(store), "reset", Null, NoPayload)

StoreNext ==
    \/ \E rooms \in RoomLists : CallSetRooms(rooms)
    \/ \E r \in RoomIds \cup {Null} : CallSetActiveRoom(r)
    \/ \E msgs \in MessageLists : CallSetMessages(msgs)
    \/ \E p \in LiveMessages : CallAddMessage(p)
    \/ \E val \in BOOLEAN : CallSetConnected(val)
    \/ \E r \in RoomIds : \E count \in Counts : CallUpdateUnreadCount(r, count)
    \/ CallReset

StoreSpec == Init /\ [][StoreNext]_vars

----------------------------------------------------------------------------
(* Properties. In an action formula the unprimed variables are the state   *)
(* before a turn, the primed ones the state after it, and last' names the  *)
(* turn.                                                                   *)

\* The turn is a message event whose payload parsed to an object tagged as a
\* new message.
IsLiveMessage(e) ==
    e.op = "onmessage" /\ e.payload.kind = "object" /\ e.payload.type = "message"

\* The directory rooms with the identity r.
RoomsWithId(rooms, r) == {k \in DOMAIN rooms : rooms[k].id = r}

\* C1: when the history request of a room settles (with a response or with a
\* failure) while another room is the active room, the message log after the
\* turn is the message log before it.
C1_SupersededFetchLeavesStore ==
    [][(/\ last'.op \in {"historyOk", "historyFail"}
        /\ store.activeRoomId # Null
        /\ last'.room # store.activeRoomId)
       => store'.messages = store.messages]_vars

\* The message log holds no two entries with the same id.
NoDuplicateIds ==
    \A i, j \in DOMAIN store.messages :
        i # j => store.messages[i].id # store.messages[j].id

\* A live message whose id is already in the log leaves the log as it was.
DuplicateIgnored ==
    (IsLiveMessage(last') /\ Exists(store.messages, last'.payload.id))
    => store'.messages = store.messages

\* C2: in every reachable state the message log holds no two entries with the
\* same id, and a live message whose id is in the log leaves the log unchanged.
C2_NoDuplicates == []NoDuplicateIds /\ [][DuplicateIgnored]_vars

\* A live message of the active room arrived whose id the history response had
\* already put in the log, and the log is the history response still.
C2_Witness ==
    /\ IsLiveMessage(last)
    /\ last.payload.room_id = store.activeRoomId
    /\ Len(store.messages) = 2
    /\ \E k \in DOMAIN store.messages :
        /\ store.messages[k].id = last.payload.id
        /\ store.messages[k].type = AbsentStr

\* C3: in every reachable state every message of the log has the active room's
\* identity as its room_id.
C3_NoCrossRoomLeak ==
    \A k \in DOMAIN store.messages : store.messages[k].room_id = store.activeRoomId

\* C4: while the history request of the latest activation is in flight, the
\* message log is empty.
C4_EmptyUntilReplace ==
    (\E k \in DOMAIN fetches : fetches[k].latest) => store.messages = <<>>

\* C5: a live message adds exactly one to the unread count of the directory
\* room with its room_id when that room is not the active room, and leaves
\* that count unchanged when it is.
C5_UnreadCount ==
    [][IsLiveMessage(last') =>
        /\ DOMAIN store'.rooms = DOMAIN store.rooms
        /\ \A k \in RoomsWithId(store.rooms, last'.payload.room_id) :
            store'.rooms[k].unread_count =
                IF last'.payload.room_id # store.activeRoomId
                THEN store.rooms[k].unread_count + 1
                ELSE store.rooms[k].unread_count]_vars

\* A live message for a directory room that is not the active room has been
\* applied, and that room has unread messages.
C5_Witness ==
    /\ IsLiveMessage(last)
    /\ last.payload.room_id # store.activeRoomId
    /\ \E k \in RoomsWithId(store.rooms, last.payload.room_id) :
        store.rooms[k].unread_count > 0

\* C6: right after ChatWindow activates a room (mount or room switch), the
\* unread count of that room in the directory is zero.
C6_ActivationResetsUnread ==
    last.op \in {"mount", "switch"} =>
        \A k \in RoomsWithId(store.rooms, last.room) : store.rooms[k].unread_count = 0

C8_MalformedIgnored ==
    [][(last'.op = "onmessage" /\ last'.payload.kind = "garbage")
       => /\ ConnectionState = "Connected"
          /\ ConnectionState' = "Connected"
          /\ store' = store
          /\ ~uncaught']_vars

\* A payload that is no JSON was delivered while the store had rooms and a
\* connection flag to lose.
C8_Witness ==
    /\ last.op = "onmessage"
    /\ last.payload.kind = "garbage"
    /\ store.isConnected
    /\ store.activeRoomId # Null
    /\ store.rooms # <<>>

\* C9: a payload tagged as a new message that lacks its id or its room_id
\* changes neither the message log nor the directory.
C9_IncompleteMessageDropped ==
    [][(/\ IsLiveMessage(last')
        /\ (last'.payload.id = Undefined \/ last'.payload.room_id = Undefined))
       => (store'.messages = store.messages /\ store'.rooms = store.rooms)]_vars

\* C10: a payload whose tag is not the new-message tag leaves the store and the
\* connection as they were.
C10_OtherTagIgnored ==
    [][(/\ last'.op = "onmessage"
        /\ last'.payload.kind = "object"
        /\ last'.payload.type # "message")
       => (store' = store /\ ConnectionState' = ConnectionState)]_vars

\* A payload with another tag was delivered that, tagged as a new message,
\* would have been appended to the log and counted in the directory.
C10_Witness ==
    /\ last.op = "onmessage"
    /\ last.payload.kind = "object"
    /\ last.payload.type = "typing"
    /\ last.payload.room_id = store.activeRoomId
    /\ ~Exists(store.messages, last.payload.id)
    /\ RoomsWithId(store.rooms, last.payload.room_id) # {}

\* The turn is a direct call of addMessage.
IsAddMessage(e) == e.op = "addMessage"

PreviewOf(msg) ==
    <<[content |-> msg.content, sender_id |-> msg.sender_id,
       timestamp |-> msg.timestamp]>>

\* C12: a live message, for the active room or for another one, sets the
\* preview of every directory room with its room_id to its content, sender
\* and timestamp.
C12_PreviewFollowsMessage ==
    [][IsLiveMessage(last') =>
        \A k \in RoomsWithId(store.rooms, last'.payload.room_id) :
            store'.rooms[k].last_message = PreviewOf(last'.payload)]_vars

\* A live message of the active room arrived and the card of that room shows
\* it.
C12_Witness ==
    /\ IsLiveMessage(last)
    /\ last.payload.room_id = store.activeRoomId
    /\ \E k \in RoomsWithId(store.rooms, last.payload.room_id) :
            store.rooms[k].last_message = PreviewOf(last.payload)

\* C13: addMessage with a message whose room_id is not activeRoomId, which may
\* be null, leaves messages, activeRoomId and isConnected as they were; only
\* rooms may change.
C13_OtherRoomLeavesLog ==
    [][(IsAddMessage(last') /\ last'.payload.room_id # store.activeRoomId)
       => /\ store'.messages = store.messages
          /\ store'.activeRoomId = store.activeRoomId
          /\ store'.isConnected = store.isConnected]_vars

\* With no room active and a log that is not empty, a message arrived whose
\* identity the log does not hold, and the card of its room shows it.
C13_Witness ==
    /\ IsAddMessage(last)
    /\ store.activeRoomId = Null
    /\ store.messages # <<>>
    /\ ~Exists(store.messages, last.payload.id)
    /\ \E k \in RoomsWithId(store.rooms, last.payload.room_id) :
            /\ store.rooms[k].last_message = PreviewOf(last.payload)
            /\ store.rooms[k].unread_count > 0

\* C14: at most one history request is in flight.
C14_OneHistoryRequest == Len(fetches) <= 1

\* C15: a live message of the active room whose identity the log does not
\* hold becomes the last entry of the log, and the entries before it are the
\* log as it was, in the same order.
C15_AppendedAtEnd ==
    [][(/\ IsLiveMessage(last')
        /\ last'.payload.room_id = store.activeRoomId
        /\ ~Exists(store.messages, last'.payload.id))
       => /\ Len(store'.messages) = Len(store.messages) + 1
          /\ SubSeq(store'.messages, 1, Len(store.messages)) = store.messages
          /\ store'.messages[Len(store'.messages)] = JSONParse(last'.payload).data]_vars

\* The live message that arrived last is the last entry of the log, behind an
\* entry with a later timestamp and a larger identity.
C15_Witness ==
    /\ IsLiveMessage(last)
    /\ last.payload.id \in MsgIds
    /\ Len(store.messages) >= 2
    /\ store.messages[Len(store.messages)] = JSONParse(last.payload).data
    /\ \E k \in 1..(Len(store.messages) - 1) :
            /\ store.messages[k].timestamp > last.payload.timestamp
            /\ store.messages[k].id > last.payload.id

\* Every frame handed to the channel so far has a content that is not empty
\* after trimming and is at most maxLength characters long.
FramesWithinBounds ==
    \A k \in DOMAIN sent :
        /\ Trim(sent[k].content) # <<>>
        /\ Length(sent[k].content) <= maxLength

\* A submit whose trimmed text is empty or longer than maxLength hands no
\* frame to the channel.
ViolatingSendRejected ==
    (/\ last'.op = "handleSend"
     /\ (Trim(input) = <<>> \/ Length(Trim(input)) > maxLength))
    => sent' = sent

\* C16: every frame transmitted carries a content that is non-empty after
\* trimming and at most 2000 characters long, and a submit whose content is
\* outside either bound transmits nothing.
C16_FrameContentBounded ==
    []FramesWithinBounds /\ [][ViolatingSendRejected]_vars

\* The submit handed a frame to the channel whose content is one run of
\* exactly maxLength characters.
C16_Witness ==
    /\ last.op = "handleSend"
    /\ sent # <<>>
    /\ Length(sent[Len(sent)].content) = maxLength
    /\ Len(sent[Len(sent)].content) = 1

\* The request that failed in this turn was sent for the room that is active.
ActiveRoomFetchFailed(e, s) == e.op = "historyFail" /\ e.room = s.activeRoomId

IsTeardown(e) == e.op \in {"unmount", "auth"} /\ roomId # Null /\ loggedIn

\* C19: after the cleanup of the WebSocket effect, on unmount and on a change
\* of user or token alike, the channel the effect had opened is closing or
\* closed and isConnected is false.
C19_TeardownDisconnects ==
    [][IsTeardown(last')
       => /\ readyState'[wsRef] \in {"CLOSING", "CLOSED"}
          /\ ~store'.isConnected]_vars

\* The token changed under a mounted ChatWindow: the channel of the old
\* effect is closing, a new one is connecting and isConnected is false.
C19_Witness ==
    /\ last.op = "auth"
    /\ wsRef # Null
    /\ readyState[wsRef] = "CONNECTING"
    /\ \E c \in DOMAIN readyState : c # wsRef /\ readyState[c] = "CLOSING"
    /\ ~store.isConnected

\* The channel of the mounted ChatWindow has ended.
CurrentClosed == wsRef # Null /\ readyState[wsRef] = "CLOSED"

\* Disconnected, by the flag the window shows and by the channel send reads.
Offline == ~store.isConnected /\ ConnectionState = "Disconnected"

\* The commits that run the WebSocket effect.
IsOpen(e) == e.op \in {"mount", "auth"}

\* C20: when the channel of the window fails or is closed by the far end, the
\* connection is Disconnected after the event; while that channel is closed,
\* every turn other than a mount or a change of user or token leaves the
\* connection Disconnected and creates no channel; and no turn creates more
\* than one channel.
C20_NoReconnect ==
    [][/\ (last'.op = "onclose" /\ last'.chan = wsRef) => Offline'
       /\ (CurrentClosed /\ ~IsOpen(last'))
            => (Offline' /\ Len(readyState') = Len(readyState))
       /\ Len(readyState') # Len(readyState)
            => (IsOpen(last') /\ Len(readyState') = Len(readyState) + 1)]_vars

\* The channel of the window had ended before the history response arrived,
\* and the connection is still Disconnected with no channel beside it.
C20_Witness ==
    /\ last.op = "historyOk"
    /\ CurrentClosed
    /\ Offline
    /\ Len(readyState) = 1

\* C21: a switch of the active room leaves wsRef.current, the readyState of
\* every channel and isConnected as they were, so a channel that was open
\* before the switch is open after it and goes on delivering message events.
C21_SwitchKeepsChannel ==
    [][last'.op = "switch"
       => /\ wsRef' = wsRef
          /\ readyState' = readyState
          /\ store'.isConnected = store.isConnected
          /\ ConnectionState' = ConnectionState]_vars

\* The room was switched under an open channel: the window shows the new
\* room, the channel is still open and the flag still set.
C21_Witness ==
    /\ last.op = "switch"
    /\ store.activeRoomId = last.room
    /\ ConnectionState = "Connected"
    /\ store.isConnected

\* The turn is a direct call of setActiveRoom(null).
IsDeactivate(e) == e.op = "setActiveRoom" /\ e.room = Null

\* C22: setActiveRoom(null) leaves the message log empty and no room active,
\* and leaves the directory and isConnected as they were.
C22_DeactivateClearsLog ==
    [][IsDeactivate(last')
       => /\ store'.messages = <<>>
          /\ store'.activeRoomId = Null
          /\ store'.rooms = store.rooms
          /\ store'.isConnected = store.isConnected]_vars

\* setActiveRoom(null) was called on a store with rooms in the directory and
\* the connection flag set, and both are still there.
C22_Witness ==
    /\ IsDeactivate(last)
    /\ store.rooms # <<>>
    /\ store.isConnected
    /\ store.messages = <<>>

\* C23: the commit that creates a channel leaves the connection Connecting;
\* the connection becomes Connected from Connecting only; and isConnected
\* turns true only in the turn that takes the window's channel from Connecting
\* to Connected.
C23_ConnectedOnlyAfterConnecting ==
    [][/\ (IsOpen(last') /\ wsRef' # wsRef) => ConnectionState' = "Connecting"
       /\ (ConnectionState' = "Connected" /\ ConnectionState # "Connected")
            => ConnectionState = "Connecting"
       /\ (store'.isConnected /\ ~store.isConnected)
            => (ConnectionState = "Connecting" /\ ConnectionState' = "Connected")]_vars

\* The open event of the second channel of the window arrived, after a change
\* of user or token: the connection is Connected and the flag is set.
C23_Witness ==
    /\ last.op = "onopen"
    /\ last.chan = wsRef
    /\ wsRef = 2
    /\ ConnectionState = "Connected"
    /\ store.isConnected

\* C24: a live message leaves every entry of the message log as it was, field
\* by field, also when it carries the id of an entry with another content,
\* sender or timestamp.
C24_StoredEntriesImmutable ==
    [][IsLiveMessage(last')
       => /\ Len(store'.messages) >= Len(store.messages)
          /\ \A k \in DOMAIN store.messages :
                store'.messages[k] = store.messages[k]]_vars

\* A live message of the active room arrived with the id of an entry of the
\* log and another content and sender, and the entry has kept its own.
C24_Witness ==
    /\ IsLiveMessage(last)
    /\ last.payload.room_id = store.activeRoomId
    /\ \E k \in DOMAIN store.messages :
            /\ store.messages[k].id = last.payload.id
            /\ store.messages[k].content # last.payload.content
            /\ store.messages[k].sender_id # last.payload.sender_id

\* C25: the turn that applies a history response leaves the directory as it
\* was: every room keeps its unread count and its preview.
C25_HistoryLeavesDirectory ==
    [][last'.op = "historyOk" => store'.rooms = store.rooms]_vars

\* The history response of the active room was applied with messages in it
\* while the card of that room counted unread messages, and it still does.
C25_Witness ==
    /\ last.op = "historyOk"
    /\ last.room = store.activeRoomId
    /\ store.messages # <<>>
    /\ \E k \in RoomsWithId(store.rooms, store.activeRoomId) :
            store.rooms[k].unread_count > 0

\* C26: while the active room stays the same, every message the channel put
\* into the log (content "b") stays in the log, whatever history response is
\* applied meanwhile.
C26_LiveMessageKept ==
    [][store'.activeRoomId = store.activeRoomId
       => \A k \in DOMAIN store.messages :
            store.messages[k].content = "b"
                => \E j \in DOMAIN store'.messages :
                        store'.messages[j] = store.messages[k]]_vars

\* C27: whenever no room is active the message log is empty.
C27_IdleLogEmpty == store.activeRoomId = Null => store.messages = <<>>

\* C28: while the channel of the window is open, isConnected is true.
C28_FlagFollowsChannel == ConnectionState = "Connected" => store.isConnected

\* C29: while the history request of the active room is in flight, the
\* loading flag is set.
C29_LoadingWhileFetching ==
    (\E k \in DOMAIN fetches : fetches[k].latest) => isLoadingHistory

\* C30: a live message leaves the directory with the same rooms in the same
\* order, and every room whose id is not the message's room_id exactly as it
\* was; with no such room in the directory, the directory is unchanged.
C30_OnlyMatchingRoomChanges ==
    [][IsLiveMessage(last')
       => /\ Len(store'.rooms) = Len(store.rooms)
          /\ \A k \in DOMAIN store.rooms :
                /\ store'.rooms[k].id = store.rooms[k].id
                /\ store.rooms[k].id # last'.payload.room_id
                    => store'.rooms[k] = store.rooms[k]
          /\ RoomsWithId(store.rooms, last'.payload.room_id) = {}
                => store'.rooms = store.rooms]_vars

\* A live message arrived for one room of a directory of two: the card of its
\* room shows it, the card of the other room shows no message.
C30_Witness ==
    /\ IsLiveMessage(last)
    /\ Len(store.rooms) = 2
    /\ \E k \in DOMAIN store.rooms :
            /\ store.rooms[k].id = last.payload.room_id
            /\ store.rooms[k].last_message = PreviewOf(last.payload)
    /\ \E k \in DOMAIN store.rooms :
            /\ store.rooms[k].id # last.payload.room_id
            /\ store.rooms[k].last_message = <<>>

====
